---------------------------- MODULE Spec2Model ----------------------------
(***************************************************************************)
(* The BOSCommerce marketplace contract (src/unnamed/part_001, the latest  *)
(* revision of contract/src/contract.ts) as a state machine.               *)
(*                                                                         *)
(* JavaScript strings are sequences of one-character strings, so that the  *)
(* conversions the contract relies on (Number -> String, String -> Decimal,*)
(* Decimal -> fixed notation -> BigInt, length -> item id) are computed    *)
(* and not assumed.  Account ids and status names are opaque and are kept  *)
(* as TLA+ strings.                                                        *)
(*                                                                         *)
(* Money: the contract computes in yoctoNEAR with arbitrary-precision      *)
(* integers.  10^24 does not fit TLC's integers, so a BigInt is held as a  *)
(* count of 10^UnitExp yoctoNEAR and every amount the model feeds in is a  *)
(* multiple of that unit; BigInt comparisons are exact either way.         *)
(***************************************************************************)
EXTENDS Integers, Sequences, FiniteSets, TLC

VARIABLES
    item_ids,        \* Vector<string>            part_001:12
    items,           \* LookupMap<Item>           part_001:14
    account_ids,     \* Vector<string>            part_001:11
    accounts_items,  \* LookupMap<Array<string>>  part_001:13
    now,             \* the host clock read by Date.now(), in milliseconds
    last             \* the call being answered: its arguments, what the host
                     \* supplied, the value returned, the transfers it
                     \* scheduled and the values it wrote to accounts_items,
                     \* in the order written; Idle between calls
VARIABLE
    listed_from      \* history: from a successful list_item of a CREATED item
                     \* until the call after it is answered, the item listed
                     \* and the storage that list_item started from; else <<>>

vars == <<item_ids, items, account_ids, accounts_items, now, last, listed_from>>

---------------------------------------------------------------------------
(* Bounds of the model *)

MaxItems == 2        \* Spec: no item is created once this many exist
ArgsItems == 1       \* SpecArgs: no item is created once this many exist
TextItems == 1       \* SpecTexts: no item is created once this many exist

(* Program constants *)

YoctoExp == 24       \* Decimal.pow(10, 24): yoctoNEAR per NEAR
UnitExp == 21        \* "0".repeat(21): the model counts money in 10^21 yoctoNEAR

---------------------------------------------------------------------------
(* Strings and numbers *)

DigitChars == <<"0", "1", "2", "3", "4", "5", "6", "7", "8", "9">>

Digit(d) == DigitChars[d + 1]

DigitValue(c) == (CHOOSE i \in 1..10 : DigitChars[i] = c) - 1

IsDigit(c) == \E i \in 1..10 : DigitChars[i] = c

RECURSIVE Pow10(_)
Pow10(k) == IF k <= 0 THEN 1 ELSE 10 * Pow10(k - 1)

RECURSIVE NatToStr(_)
\* Number.prototype.toString / BigInt digits of a non-negative integer
NatToStr(n) == IF n < 10 THEN <<Digit(n)>> ELSE Append(NatToStr(n \div 10), Digit(n % 10))

RECURSIVE StrToNat(_)
\* the value of a string of decimal digits ("" is 0)
StrToNat(s) ==
    IF s = <<>> THEN 0
    ELSE 10 * StrToNat(SubSeq(s, 1, Len(s) - 1)) + DigitValue(s[Len(s)])

RECURSIVE Zeros(_)
Zeros(k) == IF k <= 0 THEN <<>> ELSE <<"0">> \o Zeros(k - 1)

\* first position of character c in s, 0 when absent
IndexOfChar(s, c) ==
    IF \E i \in 1..Len(s) : s[i] = c
    THEN CHOOSE i \in 1..Len(s) : s[i] = c /\ \A j \in 1..(i - 1) : s[j] # c
    ELSE 0

AllDigits(s) == \A i \in 1..Len(s) : IsDigit(s[i])

(* JavaScript values as they arrive from the JSON arguments *)

Undefined == [t |-> "undefined", s |-> <<>>, neg |-> FALSE, m |-> 0, e |-> 0]

JsString(str) == [t |-> "string", s |-> str, neg |-> FALSE, m |-> 0, e |-> 0]

\* the number (-1)^neg * m * 10^e, m without trailing zeros
JsNumber(neg, m, e) == [t |-> "number", s |-> <<>>, neg |-> neg, m |-> m, e |-> e]

\* what assert(x, ...) tests
Truthy(v) ==
    CASE v.t = "undefined" -> FALSE
      [] v.t = "string" -> v.s # <<>>
      [] v.t = "number" -> v.m # 0

TypeOf(v) == v.t

\* price > 0
GreaterThanZero(v) ==
    CASE v.t = "number" -> v.m > 0 /\ ~v.neg
      [] v.t = "string" -> AllDigits(v.s) /\ StrToNat(v.s) > 0
      [] OTHER -> FALSE

\* Number.prototype.toString (ECMAScript Number::toString, radix 10)
NumberToString(v) ==
    IF v.m = 0 THEN <<"0">>
    ELSE LET digits == NatToStr(v.m)
             k == Len(digits)
             n == k + v.e
             sign == IF v.neg THEN <<"-">> ELSE <<>>
             body ==
                 IF k <= n /\ n <= 21 THEN digits \o Zeros(n - k)
                 ELSE IF 0 < n /\ n <= 21
                      THEN SubSeq(digits, 1, n) \o <<".">> \o SubSeq(digits, n + 1, k)
                 ELSE IF -6 < n /\ n <= 0
                      THEN <<"0", ".">> \o Zeros(-n) \o digits
                 ELSE LET ex == n - 1
                          es == (IF ex < 0 THEN <<"-">> ELSE <<"+">>)
                                    \o NatToStr(IF ex < 0 THEN -ex ELSE ex)
                      IN IF k = 1 THEN digits \o <<"e">> \o es
                         ELSE <<digits[1]>> \o <<".">> \o SubSeq(digits, 2, k)
                                  \o <<"e">> \o es
         IN sign \o body

RECURSIVE StripZeros(_, _)
\* m * 10^e with the trailing zeros of m moved into the exponent
StripZeros(m, e) ==
    IF m # 0 /\ m % 10 = 0 THEN StripZeros(m \div 10, e + 1) ELSE [m |-> m, e |-> e]

\* new Decimal(string): sign, digits with an optional point, optional exponent
Decimal(str) ==
    LET neg == str # <<>> /\ str[1] = "-"
        unsigned == IF neg THEN SubSeq(str, 2, Len(str)) ELSE str
        epos == IndexOfChar(unsigned, "e")
        mant == IF epos = 0 THEN unsigned ELSE SubSeq(unsigned, 1, epos - 1)
        expo == IF epos = 0 THEN <<>> ELSE SubSeq(unsigned, epos + 1, Len(unsigned))
        eneg == expo # <<>> /\ expo[1] = "-"
        edigits == IF expo # <<>> /\ expo[1] \in {"-", "+"}
                   THEN SubSeq(expo, 2, Len(expo)) ELSE expo
        ex == IF eneg THEN -StrToNat(edigits) ELSE StrToNat(edigits)
        dot == IndexOfChar(mant, ".")
        int == IF dot = 0 THEN mant ELSE SubSeq(mant, 1, dot - 1)
        frac == IF dot = 0 THEN <<>> ELSE SubSeq(mant, dot + 1, Len(mant))
        n == StripZeros(StrToNat(int \o frac), ex - Len(frac))
    IN [neg |-> neg, m |-> n.m, e |-> IF n.m = 0 THEN 0 ELSE n.e]

\* Decimal.mul(Decimal.pow(10, k))
DecimalMulPow10(d, k) == [neg |-> d.neg, m |-> d.m, e |-> IF d.m = 0 THEN 0 ELSE d.e + k]

\* Decimal.toFixed(): plain notation, never an exponent
ToFixed(d) ==
    IF d.m = 0 THEN <<"0">>
    ELSE LET digits == NatToStr(d.m)
             k == Len(digits)
             n == k + d.e
             sign == IF d.neg THEN <<"-">> ELSE <<>>
         IN sign \o (IF d.e >= 0 THEN digits \o Zeros(d.e)
                     ELSE IF n > 0
                          THEN SubSeq(digits, 1, n) \o <<".">> \o SubSeq(digits, n + 1, k)
                     ELSE <<"0", ".">> \o Zeros(-n) \o digits)

\* BigInt(string) accepts an integer literal only; anything else is a SyntaxError
BigIntThrows(str) ==
    LET neg == str # <<>> /\ str[1] = "-"
        unsigned == IF neg THEN SubSeq(str, 2, Len(str)) ELSE str
    IN ~AllDigits(unsigned) \/ (neg /\ unsigned = <<>>)

\* BigInt(string) of a non-negative integer literal, in units of 10^UnitExp
\* yoctoNEAR (the literal's last UnitExp digits are zeros for every amount of
\* the model; 0 itself is "0")
BigIntOf(str) ==
    IF Len(str) <= UnitExp THEN 0 ELSE StrToNat(SubSeq(str, 1, Len(str) - UnitExp))

---------------------------------------------------------------------------
(* The host environment (near-sdk-js) and the inputs of the model *)

\* near.currentAccountId(): the account the contract is deployed on
currentAccountId == "contract"

\* near.predecessorAccountId(): the contract's own account can call it too
Accounts == {currentAccountId, "alice", "bob"}

\* ItemStatus, models.ts
ItemStatus == {"CREATED", "FORSALE", "DELETED", "SOLD"}

Text == <<"t">>

\* Inputs of Spec: well-formed calls on up to MaxItems items.

\* name, description and image as sent: three texts that differ
Name == <<"n">>

Description == <<"d">>

Image == <<"i">>

\* item_id as sent: the ids "0" .. "MaxItems - 1", existing or not yet
ItemIds == {JsString(NatToStr(k)) : k \in 0..(MaxItems - 1)}

\* price as sent: 0.1
Prices == {JsNumber(FALSE, 1, -1)}

\* near.attachedDeposit() on create_item: 0.024 NEAR, 0.025 NEAR
CreateDeposits == {24, 25}

\* near.attachedDeposit() on purchase_item: 0.1 NEAR, the price (SpecArgs pays
\* less and more than the price as well)
PurchaseDeposits == {100}

\* what the contract's account held before the call: the 100 NEAR of the tests;
\* near.accountBalance() is this plus the attached deposit
Balances == {100000}

\* Inputs of SpecArgs: every shape of argument on up to ArgsItems items.

\* name, description, image as sent: missing, a number, a text
TextArgs == {Undefined, JsNumber(FALSE, 123, 0), JsString(Text)}

\* item_id as sent: missing, the number 1.01, "", the ids "0" .. "ArgsItems"
ItemIdArgs ==
    {Undefined, JsNumber(FALSE, 101, -2), JsString(<<>>)}
        \cup {JsString(NatToStr(k)) : k \in 0..ArgsItems}

\* price as sent: missing, 0, -1, "t", 0.1, 0.025, 1e-25
PriceArgs ==
    {Undefined, JsNumber(FALSE, 0, 0), JsNumber(TRUE, 1, 0), JsString(Text),
     JsNumber(FALSE, 1, -1), JsNumber(FALSE, 25, -3), JsNumber(FALSE, 1, -25)}

\* near.attachedDeposit() on purchase_item: none, and either side of 0.025 and
\* of 0.1 NEAR
DepositArgs == {0, 24, 25, 99, 100, 101}

\* near.attachedDeposit() on create_item: either side of 0.025 NEAR
CreateDepositArgs == {24, 25}

\* what the contract's account held before the call: the least it can hold
PriorBalances == {1}

\* Inputs of SpecTexts: items whose name, description and image differ from
\* each other and from item to item, on up to TextItems items.

\* name as sent: a short and a longer text
Names == {JsString(Name), JsString(Name \o Name)}

\* description and image as sent
Descriptions == {JsString(Description)}

Images == {JsString(Image)}

\* item_id as sent: the ids "0" .. "TextItems - 1"
TextItemIds == {JsString(NatToStr(k)) : k \in 0..(TextItems - 1)}

\* near.attachedDeposit() on create_item: none, 0.024 NEAR, 0.025 NEAR, 0.1 NEAR
TextDeposits == {0, 24, 25, 100}

\* MINIMUM_NEAR_DEPOSIT = BigInt("25" + "0".repeat(21))
MINIMUM_NEAR_DEPOSIT == 25 * Pow10(21 - UnitExp)

\* new Item(), models.ts
NewItem ==
    [id |-> <<>>, name |-> <<>>, description |-> <<>>, price |-> <<>>, image |-> <<>>,
     owner |-> "", created_at |-> <<>>, updated_at |-> <<>>, status |-> "CREATED"]

\* Date.now().toString()
DateNowString == NatToStr(now)

\* LookupMap.get truthiness: the key has a value
Has(map, key) == key \in DOMAIN map

\* faulty variant: the value is stored under every key
MapSet_every(map, key, value) == [k \in DOMAIN map \cup {key} |-> value]

\* LookupMap.set
MapSet(map, key, value) == [k \in DOMAIN map \cup {key} |-> IF k = key THEN value ELSE map[k]]

\* Array.prototype.indexOf, 1-based, 0 when absent
IndexOf(list, x) == IndexOfChar(list, x)

\* Array.prototype.splice(index, 1)
Splice(list, index) == SubSeq(list, 1, index - 1) \o SubSeq(list, index + 1, Len(list))

NoArgs ==
    [item_id |-> Undefined, price |-> Undefined, name |-> Undefined,
     description |-> Undefined, image |-> Undefined]

ledger == <<item_ids, items, account_ids, accounts_items>>

\* the contract's storage as a value
Stored(ids, its, roster, owned) ==
    [item_ids |-> ids, items |-> its, account_ids |-> roster, accounts_items |-> owned]

\* the record of a call: who called, with what, what the host supplied, the
\* storage and the clock it started from (pre, at), what was returned, which
\* transfers were scheduled; writes is filled in by the calls that write the
\* index: accounts_items after each this.accounts_items.set, in order
Call(op, caller, args, deposit, balance, success, msg, item_id, transfers, view) ==
    [op |-> op, caller |-> caller, args |-> args, deposit |-> deposit, balance |-> balance,
     pre |-> Stored(item_ids, items, account_ids, accounts_items), at |-> now,
     success |-> success, msg |-> msg, item_id |-> item_id, transfers |-> transfers,
     view |-> view, writes |-> <<>>]

Failure(op, caller, args, deposit, balance, msg) ==
    Call(op, caller, args, deposit, balance, FALSE, msg, <<>>, <<>>, <<>>)

Success(op, caller, args, deposit, balance, msg, item_id, transfers) ==
    Call(op, caller, args, deposit, balance, TRUE, msg, item_id, transfers, <<>>)

\* no call is being answered
Idle ==
    [op |-> "idle", caller |-> "", args |-> NoArgs, deposit |-> 0, balance |-> 0,
     pre |-> Stored(<<>>, <<>>, <<>>, <<>>), at |-> 0,
     success |-> TRUE, msg |-> "", item_id |-> <<>>, transfers |-> <<>>, view |-> <<>>,
     writes |-> <<>>]

---------------------------------------------------------------------------
(* The contract *)

Init ==
    /\ item_ids = <<>>
    /\ items = <<>>
    /\ account_ids = <<>>
    /\ accounts_items = <<>>
    /\ now = 0
    /\ last = Idle
    /\ listed_from = <<>>

\* faulty variant: the id is the number of items not deleted
NextItemId_live == NatToStr(Cardinality({i \in DOMAIN items : items[i].status # "DELETED"}))

\* line 35: this.item_ids.length.toString()
NextItemId == NatToStr(Len(item_ids))

\* faulty variant: name and description change places
Created_swapped(item_id, name, description, image, owner) ==
    [NewItem EXCEPT !.id = item_id, !.name = description, !.description = name,
                    !.image = image, !.owner = owner, !.created_at = DateNowString,
                    !.updated_at = DateNowString, !.status = "CREATED"]

\* lines 36-44: the item create_item stores
Created(item_id, name, description, image, owner) ==
    [NewItem EXCEPT !.id = item_id, !.name = name, !.description = description,
                    !.image = image, !.owner = owner, !.created_at = DateNowString,
                    !.updated_at = DateNowString, !.status = "CREATED"]

\* faulty variant: deleting stamps the record with the time of the call
Deleted_stamped(item) == [item EXCEPT !.status = "DELETED", !.updated_at = DateNowString]

\* line 73
Deleted(item) == [item EXCEPT !.status = "DELETED"]

\* faulty variant: the price is stored without its decimal exponent
Listed_integer(item, price) ==
    [item EXCEPT !.price = NatToStr(price.m), !.status = "FORSALE"]

\* faulty variant: listing stamps the record with the time of the call
Listed_stamped(item, price) ==
    [item EXCEPT !.price = NumberToString(price), !.status = "FORSALE",
                 !.updated_at = DateNowString]

\* lines 97-98
Listed(item, price) == [item EXCEPT !.price = NumberToString(price), !.status = "FORSALE"]

\* faulty variant: delisting stamps the record with the time of the call
Delisted_stamped(item) ==
    [item EXCEPT !.price = <<>>, !.status = "CREATED", !.updated_at = DateNowString]

\* faulty variant: delisting forgets to clear the price
Delisted_keeps_price(item) == [item EXCEPT !.status = "CREATED"]

\* lines 119-120
Delisted(item) == [item EXCEPT !.price = <<>>, !.status = "CREATED"]

\* lines 163-165
Sold(item, buyer) == [item EXCEPT !.owner = buyer, !.price = <<>>, !.status = "SOLD"]

\* faulty variant: the minimum deposit itself is refused
create_item_guards_strict(name, description, image, deposit) ==
    CASE ~Truthy(name) -> "Name is required"
      [] TypeOf(name) # "string" -> "Name must be a string"
      [] ~Truthy(description) -> "Description is required"
      [] TypeOf(description) # "string" -> "Description must be a string"
      [] ~Truthy(image) -> "Image is required"
      [] TypeOf(image) # "string" -> "Image must be a string"
      [] ~(deposit > MINIMUM_NEAR_DEPOSIT) -> "Not enough attached deposit"
      [] OTHER -> ""

\* faulty variant: the deposit is not checked
create_item_guards_no_deposit(name, description, image, deposit) ==
    CASE ~Truthy(name) -> "Name is required"
      [] TypeOf(name) # "string" -> "Name must be a string"
      [] ~Truthy(description) -> "Description is required"
      [] TypeOf(description) # "string" -> "Description must be a string"
      [] ~Truthy(image) -> "Image is required"
      [] TypeOf(image) # "string" -> "Image must be a string"
      [] OTHER -> ""

\* the message of the first failing assert of create_item, "" when all pass
create_item_guards(name, description, image, deposit) ==
    CASE ~Truthy(name) -> "Name is required"
      [] TypeOf(name) # "string" -> "Name must be a string"
      [] ~Truthy(description) -> "Description is required"
      [] TypeOf(description) # "string" -> "Description must be a string"
      [] ~Truthy(image) -> "Image is required"
      [] TypeOf(image) # "string" -> "Image must be a string"
      [] ~(deposit >= MINIMUM_NEAR_DEPOSIT) -> "Not enough attached deposit"
      [] OTHER -> ""

\* The clock is the host's.  The model advances it by one millisecond at every
\* item created, so that every later call runs at a time that differs from the
\* item's created_at.
create_item(caller, name, description, image, deposit) ==
    LET args == [NoArgs EXCEPT !.name = name, !.description = description, !.image = image]
        msg == create_item_guards(name, description, image, deposit)
        item_id == NextItemId
        item == Created(item_id, name.s, description.s, image.s, caller)
    IN IF msg # ""
       THEN /\ last' = Failure("create_item", caller, args, deposit, 0, msg)
            /\ UNCHANGED <<ledger, now>>
       ELSE /\ item_ids' = Append(item_ids, item_id)
            /\ items' = MapSet(items, item_id, item)
            /\ IF Has(accounts_items, item.owner)
               THEN /\ accounts_items' =
                          MapSet(accounts_items, item.owner,
                                 Append(accounts_items[item.owner], item_id))
                    /\ UNCHANGED account_ids
               ELSE /\ account_ids' = Append(account_ids, item.owner)
                    /\ accounts_items' = MapSet(accounts_items, item.owner, <<item_id>>)
            /\ last' = [Success("create_item", caller, args, deposit, 0,
                                "Item created successfully", item_id, <<>>)
                            EXCEPT !.writes = <<accounts_items'>>]
            /\ now' = now + 1

\* faulty variant: delete_item does not check who calls
delete_item_guards_no_owner(caller, item_id) ==
    CASE ~Truthy(item_id) -> "Item ID is required"
      [] TypeOf(item_id) # "string" -> "Item ID must be a string"
      [] ~Has(items, item_id.s) -> "Item does not exist"
      [] ~(items[item_id.s].status # "FORSALE") ->
             "Item is listed for sale. Please delist it first"
      [] OTHER -> ""

\* the message of the first failing assert of delete_item, "" when all pass
delete_item_guards(caller, item_id) ==
    CASE ~Truthy(item_id) -> "Item ID is required"
      [] TypeOf(item_id) # "string" -> "Item ID must be a string"
      [] ~Has(items, item_id.s) -> "Item does not exist"
      [] items[item_id.s].owner # caller -> "Only the owner can delete an item"
      [] ~(items[item_id.s].status # "FORSALE") ->
             "Item is listed for sale. Please delist it first"
      [] OTHER -> ""

delete_item(caller, item_id) ==
    LET args == [NoArgs EXCEPT !.item_id = item_id]
        msg == delete_item_guards(caller, item_id)
    IN IF msg # ""
       THEN /\ last' = Failure("delete_item", caller, args, 0, 0, msg)
            /\ UNCHANGED <<ledger, now>>
       ELSE /\ items' = MapSet(items, item_id.s, Deleted(items[item_id.s]))
            /\ last' = Success("delete_item", caller, args, 0, 0,
                               "Item deleted successfully", <<>>, <<>>)
            /\ UNCHANGED <<item_ids, account_ids, accounts_items, now>>

\* faulty variant: list_item does not check the status
list_item_guards_relist(caller, item_id, price) ==
    CASE ~Truthy(item_id) -> "Item ID is required"
      [] TypeOf(item_id) # "string" -> "Item ID must be a string"
      [] ~Has(items, item_id.s) -> "Item does not exist"
      [] items[item_id.s].owner # caller -> "Only the owner can list an item"
      [] ~Truthy(price) -> "Price is required"
      [] TypeOf(price) # "number" -> "Price must be a number"
      [] ~GreaterThanZero(price) -> "Price must be greater than 0"
      [] OTHER -> ""

\* the message of the first failing assert of list_item, "" when all pass
list_item_guards(caller, item_id, price) ==
    CASE ~Truthy(item_id) -> "Item ID is required"
      [] TypeOf(item_id) # "string" -> "Item ID must be a string"
      [] ~Has(items, item_id.s) -> "Item does not exist"
      [] ~(items[item_id.s].status # "FORSALE") -> "Item is already listed"
      [] items[item_id.s].owner # caller -> "Only the owner can list an item"
      [] ~Truthy(price) -> "Price is required"
      [] TypeOf(price) # "number" -> "Price must be a number"
      [] ~GreaterThanZero(price) -> "Price must be greater than 0"
      [] OTHER -> ""

list_item(caller, item_id, price) ==
    LET args == [NoArgs EXCEPT !.item_id = item_id, !.price = price]
        msg == list_item_guards(caller, item_id, price)
    IN IF msg # ""
       THEN /\ last' = Failure("list_item", caller, args, 0, 0, msg)
            /\ UNCHANGED <<ledger, now>>
       ELSE /\ items' = MapSet(items, item_id.s, Listed(items[item_id.s], price))
            /\ last' = Success("list_item", caller, args, 0, 0,
                               "Item listed successfully", <<>>, <<>>)
            /\ UNCHANGED <<item_ids, account_ids, accounts_items, now>>

\* faulty variant: delist_item does not check the status
delist_item_guards_no_status(caller, item_id) ==
    CASE ~Truthy(item_id) -> "Item ID is required"
      [] TypeOf(item_id) # "string" -> "Item ID must be a string"
      [] ~Has(items, item_id.s) -> "Item does not exist"
      [] items[item_id.s].owner # caller -> "Only the owner can delist an item"
      [] OTHER -> ""

\* the message of the first failing assert of delist_item, "" when all pass
delist_item_guards(caller, item_id) ==
    CASE ~Truthy(item_id) -> "Item ID is required"
      [] TypeOf(item_id) # "string" -> "Item ID must be a string"
      [] ~Has(items, item_id.s) -> "Item does not exist"
      [] items[item_id.s].owner # caller -> "Only the owner can delist an item"
      [] ~(items[item_id.s].status = "FORSALE") -> "Item is not listed for sale"
      [] OTHER -> ""

delist_item(caller, item_id) ==
    LET args == [NoArgs EXCEPT !.item_id = item_id]
        msg == delist_item_guards(caller, item_id)
    IN IF msg # ""
       THEN /\ last' = Failure("delist_item", caller, args, 0, 0, msg)
            /\ UNCHANGED <<ledger, now>>
       ELSE /\ items' = MapSet(items, item_id.s, Delisted(items[item_id.s]))
            /\ last' = Success("delist_item", caller, args, 0, 0,
                               "Item delisted successfully", <<>>, <<>>)
            /\ UNCHANGED <<item_ids, account_ids, accounts_items, now>>

\* faulty variant: the transfer is scheduled twice
internalSendNEAR_twice(receivingAccountId, amount, balance) ==
    CASE ~(amount > 0) ->
             [msg |-> "The amount should be a positive number", transfers |-> <<>>]
      [] ~(receivingAccountId # currentAccountId) ->
             [msg |-> "Can't transfer to the contract itself", transfers |-> <<>>]
      [] ~(amount < balance) ->
             [msg |-> "Not enough balance to cover transfer", transfers |-> <<>>]
      [] OTHER ->
             [msg |-> "", transfers |-> <<[to |-> receivingAccountId, amount |-> amount],
                                          [to |-> receivingAccountId, amount |-> amount]>>]

\* faulty variant: the transfer is scheduled without the three asserts
internalSendNEAR_unchecked(receivingAccountId, amount, balance) ==
    [msg |-> "", transfers |-> <<[to |-> receivingAccountId, amount |-> amount]>>]

\* internalSendNEAR: the message of its first failing assert, or "" and the
\* transfer it schedules (NearPromise.new(receivingAccountId).transfer(amount))
internalSendNEAR(receivingAccountId, amount, balance) ==
    CASE ~(amount > 0) ->
             [msg |-> "The amount should be a positive number", transfers |-> <<>>]
      [] ~(receivingAccountId # currentAccountId) ->
             [msg |-> "Can't transfer to the contract itself", transfers |-> <<>>]
      [] ~(amount < balance) ->
             [msg |-> "Not enough balance to cover transfer", transfers |-> <<>>]
      [] OTHER ->
             [msg |-> "", transfers |-> <<[to |-> receivingAccountId, amount |-> amount]>>]

\* amount.toFixed() for amount = new Decimal(price).mul(Decimal.pow(10, 24))
AmountToFixed(price) == ToFixed(DecimalMulPow10(Decimal(price), YoctoExp))

\* faulty variant: the owner is not kept from purchasing
purchase_item_guards_own_item(caller, item_id, deposit) ==
    CASE ~Truthy(item_id) -> "Item ID is required"
      [] TypeOf(item_id) # "string" -> "Item ID must be a string"
      [] ~Has(items, item_id.s) -> "Item does not exist"
      [] ~(items[item_id.s].status = "FORSALE") -> "Item is not listed for sale"
      [] BigIntThrows(AmountToFixed(items[item_id.s].price)) -> "SyntaxError"
      [] ~(deposit >= BigIntOf(AmountToFixed(items[item_id.s].price))) ->
             "Not enough attached deposit"
      [] OTHER -> ""

\* the message of the first failing assert of purchase_item before anything is
\* written, "" when all pass; BigInt(amount.toFixed()) throws a SyntaxError
\* inside the same try block when the amount is not a whole number
purchase_item_guards(caller, item_id, deposit) ==
    CASE ~Truthy(item_id) -> "Item ID is required"
      [] TypeOf(item_id) # "string" -> "Item ID must be a string"
      [] ~Has(items, item_id.s) -> "Item does not exist"
      [] ~(items[item_id.s].status = "FORSALE") -> "Item is not listed for sale"
      [] ~(items[item_id.s].owner # caller) -> "You cannot purchase your own item"
      [] BigIntThrows(AmountToFixed(items[item_id.s].price)) -> "SyntaxError"
      [] ~(deposit >= BigIntOf(AmountToFixed(items[item_id.s].price))) ->
             "Not enough attached deposit"
      [] OTHER -> ""

\* faulty variant: a buyer who already has a list gets the id twice
AddToBuyer_twice(map, buyer, item_id) ==
    IF Has(map, buyer) THEN MapSet(map, buyer, Append(Append(map[buyer], item_id), item_id))
    ELSE MapSet(map, buyer, <<item_id>>)

\* faulty variant: the id goes to the front of the buyer's list
AddToBuyer_front(map, buyer, item_id) ==
    IF Has(map, buyer) THEN MapSet(map, buyer, <<item_id>> \o map[buyer])
    ELSE MapSet(map, buyer, <<item_id>>)

\* lines 147-154: the buyer's list gains the id, the roster gains a new buyer
AddToBuyer(map, buyer, item_id) ==
    IF Has(map, buyer) THEN MapSet(map, buyer, Append(map[buyer], item_id))
    ELSE MapSet(map, buyer, <<item_id>>)

\* faulty variant: a seller whose list becomes empty loses the entry
RemoveFromSeller_prunes(map, seller, item_id) ==
    IF Has(map, seller) /\ IndexOf(map[seller], item_id) > 0
    THEN IF Len(map[seller]) = 1 THEN [k \in DOMAIN map \ {seller} |-> map[k]]
         ELSE MapSet(map, seller, Splice(map[seller], IndexOf(map[seller], item_id)))
    ELSE map

\* faulty variant: the seller's list is left as it was
RemoveFromSeller_none(map, seller, item_id) == map

\* lines 155-162: the seller's list loses the first occurrence of the id
RemoveFromSeller(map, seller, item_id) ==
    IF Has(map, seller) /\ IndexOf(map[seller], item_id) > 0
    THEN MapSet(map, seller, Splice(map[seller], IndexOf(map[seller], item_id)))
    ELSE map

\* balance is what near.accountBalance() answers during the call
purchase_item(caller, item_id, deposit, balance) ==
    LET args == [NoArgs EXCEPT !.item_id = item_id]
        msg == purchase_item_guards(caller, item_id, deposit)
        item == items[item_id.s]
        buyer == caller
        seller == item.owner
        amount == BigIntOf(AmountToFixed(item.price))
        send == internalSendNEAR(seller, amount, balance)
        \* lines 150/153, then line 160 when the seller's list held the id
        first == AddToBuyer(accounts_items, buyer, item_id.s)
        second == RemoveFromSeller(first, seller, item_id.s)
        writes == IF Has(first, seller) /\ IndexOf(first[seller], item_id.s) > 0
                  THEN <<first, second>> ELSE <<first>>
        result == IF send.msg # ""
                  THEN Failure("purchase_item", caller, args, deposit, balance, send.msg)
                  ELSE Success("purchase_item", caller, args, deposit, balance,
                               "Item purchased successfully", <<>>, send.transfers)
    IN IF msg # ""
       THEN /\ last' = Failure("purchase_item", caller, args, deposit, balance, msg)
            /\ UNCHANGED <<ledger, now>>
       ELSE \* every write below reaches storage before internalSendNEAR runs; an
            \* assert failing there is caught by this method's own catch, the call
            \* returns normally and the writes stay
            /\ account_ids' = IF Has(accounts_items, buyer) THEN account_ids
                              ELSE Append(account_ids, buyer)
            /\ accounts_items' = second
            /\ items' = MapSet(items, item_id.s, Sold(item, buyer))
            /\ last' = [result EXCEPT !.writes = writes]
            /\ UNCHANGED <<item_ids, now>>

RECURSIVE get_items_from_all(_)
\* faulty variant: the loop without the status filter, as in contract/src/contract.ts
get_items_from_all(ids) ==
    IF ids = <<>> THEN <<>>
    ELSE IF Has(items, Head(ids)) THEN <<items[Head(ids)]>> \o get_items_from_all(Tail(ids))
    ELSE get_items_from_all(Tail(ids))

RECURSIVE get_items_from(_)
\* the loop of get_items over the ids still to visit
get_items_from(ids) ==
    IF ids = <<>> THEN <<>>
    ELSE LET item_id == Head(ids)
             rest == get_items_from(Tail(ids))
         IN IF Has(items, item_id) /\ items[item_id].status # "DELETED"
            THEN <<items[item_id]>> \o rest
            ELSE rest

get_items == get_items_from(item_ids)

\* the view call: returns get_items and writes nothing
view_items ==
    /\ last' = Call("get_items", "", NoArgs, 0, 0, TRUE, "", <<>>, <<>>, get_items)
    /\ UNCHANGED <<ledger, now>>

\* the host hands the returned value to the caller
Return ==
    /\ last' = Idle
    /\ UNCHANGED <<ledger, now>>

\* the history kept for the step being taken: a successful list_item of a
\* CREATED item is recorded, kept while it returns and through a successful
\* delist_item of the same item that follows it, and forgotten at any other step
History ==
    listed_from' =
        CASE /\ last'.op = "list_item"
             /\ last'.success
             /\ last'.pre.items[last'.args.item_id.s].status = "CREATED" ->
                 <<[item_id |-> last'.args.item_id.s, from |-> last'.pre]>>
          [] last'.op = "idle" /\ last.op = "list_item" -> listed_from
          [] /\ last'.op = "delist_item"
             /\ last'.success
             /\ listed_from # <<>>
             /\ listed_from[1].item_id = last'.args.item_id.s -> listed_from
          [] OTHER -> <<>>

\* the model creates no item beyond cap; a create_item that fails is not cut off
Room(cap, name, description, image, deposit) ==
    Len(item_ids) < cap \/ create_item_guards(name, description, image, deposit) # ""

\* one call at a time: a call starts after the previous one has returned
Next ==
    \/ last = Idle /\ \E caller \in Accounts, deposit \in CreateDeposits :
                          /\ Room(MaxItems, JsString(Name), JsString(Description),
                                  JsString(Image), deposit)
                          /\ create_item(caller, JsString(Name), JsString(Description),
                                         JsString(Image), deposit)
                          /\ History
    \/ last = Idle /\ \E caller \in Accounts, item_id \in ItemIds :
                          delete_item(caller, item_id) /\ History
    \/ last = Idle /\ \E caller \in Accounts, item_id \in ItemIds, price \in Prices :
                          list_item(caller, item_id, price) /\ History
    \/ last = Idle /\ \E caller \in Accounts, item_id \in ItemIds :
                          delist_item(caller, item_id) /\ History
    \/ last = Idle /\ \E caller \in Accounts, item_id \in ItemIds,
                         deposit \in PurchaseDeposits, prior \in Balances :
                          purchase_item(caller, item_id, deposit, prior + deposit) /\ History
    \/ last = Idle /\ view_items /\ History
    \/ last # Idle /\ Return /\ History

Spec == Init /\ [][Next]_vars

\* the same contract called with every shape of argument
NextArgs ==
    \/ last = Idle /\ \E caller \in Accounts, name \in TextArgs, description \in TextArgs,
                         image \in TextArgs, deposit \in CreateDepositArgs :
                          /\ Room(ArgsItems, name, description, image, deposit)
                          /\ create_item(caller, name, description, image, deposit)
                          /\ History
    \/ last = Idle /\ \E caller \in Accounts, item_id \in ItemIdArgs :
                          delete_item(caller, item_id) /\ History
    \/ last = Idle /\ \E caller \in Accounts, item_id \in ItemIdArgs, price \in PriceArgs :
                          list_item(caller, item_id, price) /\ History
    \/ last = Idle /\ \E caller \in Accounts, item_id \in ItemIdArgs :
                          delist_item(caller, item_id) /\ History
    \/ last = Idle /\ \E caller \in Accounts, item_id \in ItemIdArgs,
                         deposit \in DepositArgs, prior \in PriorBalances :
                          purchase_item(caller, item_id, deposit, prior + deposit) /\ History
    \/ last = Idle /\ view_items /\ History
    \/ last # Idle /\ Return /\ History

SpecArgs == Init /\ [][NextArgs]_vars

\* the same contract called with items of differing content
NextTexts ==
    \/ last = Idle /\ \E caller \in Accounts, name \in Names, description \in Descriptions,
                         image \in Images, deposit \in TextDeposits :
                          /\ Room(TextItems, name, description, image, deposit)
                          /\ create_item(caller, name, description, image, deposit)
                          /\ History
    \/ last = Idle /\ \E caller \in Accounts, item_id \in TextItemIds :
                          delete_item(caller, item_id) /\ History
    \/ last = Idle /\ \E caller \in Accounts, item_id \in TextItemIds, price \in Prices :
                          list_item(caller, item_id, price) /\ History
    \/ last = Idle /\ \E caller \in Accounts, item_id \in TextItemIds :
                          delist_item(caller, item_id) /\ History
    \/ last = Idle /\ \E caller \in Accounts, item_id \in TextItemIds, prior \in Balances :
                          purchase_item(caller, item_id, 100, prior + 100) /\ History
    \/ last = Idle /\ view_items /\ History
    \/ last # Idle /\ Return /\ History

SpecTexts == Init /\ [][NextTexts]_vars

---------------------------------------------------------------------------
(* Properties.  Each is a predicate of the state: last holds the call being *)
(* answered together with the storage it started from (last.pre).           *)

Range(seq) == {seq[k] : k \in 1..Len(seq)}

StoredNow == Stored(item_ids, items, account_ids, accounts_items)

\* the call named an item that existed when it started
OnExistingItem ==
    /\ TypeOf(last.args.item_id) = "string"
    /\ last.args.item_id.s \in DOMAIN last.pre.items

\* that item before the call, and now
ItemBefore == last.pre.items[last.args.item_id.s]

ItemAfter == items[last.args.item_id.s]

\* price x 10^24 yoctoNEAR, in units of 10^UnitExp yoctoNEAR
PriceAmount(price) ==
    LET d == Decimal(price) IN d.m * Pow10(d.e + YoctoExp - UnitExp)

\* deposit (in units of 10^UnitExp yoctoNEAR) < price x 10^24 yoctoNEAR, exactly,
\* also for a price that is not a whole number of units
BelowPrice(deposit, price) ==
    LET d == Decimal(price)
        k == d.e + YoctoExp - UnitExp
    IN IF k >= 0 THEN deposit < d.m * Pow10(k)
       ELSE IF deposit = 0 THEN d.m > 0
       ELSE IF -k > 8 THEN FALSE
       ELSE deposit * Pow10(-k) < d.m

\* a field that is missing or not a text
BadText(v) == ~Truthy(v) \/ TypeOf(v) # "string"

\* a price that is missing, zero, not a number or not greater than 0
BadPrice(v) == ~Truthy(v) \/ TypeOf(v) # "number" \/ ~GreaterThanZero(v)

\* the purchase got past its validation: FORSALE item of another account,
\* payment of at least the price
PurchaseValid ==
    /\ last.op = "purchase_item"
    /\ OnExistingItem
    /\ ItemBefore.status = "FORSALE"
    /\ ItemBefore.owner # last.caller
    /\ ~BelowPrice(last.deposit, ItemBefore.price)

\* a settlement precondition does not hold for the transfer of that purchase
SettlementFails ==
    \/ ~(PriceAmount(ItemBefore.price) > 0)
    \/ ItemBefore.owner = currentAccountId
    \/ ~(PriceAmount(ItemBefore.price) < last.balance)

\* C1 (as claimed): in every purchase_item call the item changes owner if and
\* only if exactly one transfer, to the previous owner, of exactly
\* price x 10^24 yoctoNEAR is scheduled in that call.
C1_OwnerMovesIffSellerPaid ==
    (last.op = "purchase_item" /\ OnExistingItem) =>
        ((ItemAfter.owner # ItemBefore.owner)
            <=> /\ Len(last.transfers) = 1
                /\ last.transfers[1].to = ItemBefore.owner
                /\ last.transfers[1].amount = PriceAmount(ItemBefore.price))

\* C2 (as claimed): when a settlement precondition fails in purchase_item, the
\* storage after the call equals the storage before it.
C2_SettlementFailureDiscardsWrites ==
    (PurchaseValid /\ SettlementFails) => StoredNow = last.pre

\* a validation guard of the call fails, stated from the arguments and the
\* storage the call started from
GuardFails ==
    LET a == last.args
        missing == ~BadText(a.item_id) /\ ~OnExistingItem
        held == ~BadText(a.item_id) /\ OnExistingItem
    IN CASE last.op = "create_item" ->
                \/ BadText(a.name) \/ BadText(a.description) \/ BadText(a.image)
                \/ last.deposit < MINIMUM_NEAR_DEPOSIT
         [] last.op = "delete_item" ->
                \/ BadText(a.item_id) \/ missing
                \/ held /\ (ItemBefore.owner # last.caller \/ ItemBefore.status = "FORSALE")
         [] last.op = "list_item" ->
                \/ BadText(a.item_id) \/ missing
                \/ held /\ (ItemBefore.owner # last.caller \/ ItemBefore.status = "FORSALE")
                \/ BadPrice(a.price)
         [] last.op = "delist_item" ->
                \/ BadText(a.item_id) \/ missing
                \/ held /\ (ItemBefore.owner # last.caller \/ ItemBefore.status # "FORSALE")
         [] last.op = "purchase_item" ->
                \/ BadText(a.item_id) \/ missing
                \/ held /\ (ItemBefore.status # "FORSALE" \/ ItemBefore.owner = last.caller)
                \/ held /\ ItemBefore.status = "FORSALE"
                        /\ BelowPrice(last.deposit, ItemBefore.price)
         [] OTHER -> FALSE

\* C3: when a validation guard of create_item, delete_item, list_item,
\* delist_item or purchase_item fails, the call returns success = false, the
\* storage (items, id list, owned-id lists, roster) is unchanged and no transfer
\* is scheduled.
C3_FailedGuardChangesNothing ==
    GuardFails => /\ ~last.success
                  /\ StoredNow = last.pre
                  /\ last.transfers = <<>>

\* a purchase of a listed item by another account with too small a payment
C3_Witness ==
    /\ last.op = "purchase_item"
    /\ GuardFails
    /\ OnExistingItem
    /\ ItemBefore.status = "FORSALE"
    /\ ItemBefore.owner # last.caller
    /\ ~last.success

\* C4: for every account a and item id i, i is in accounts_items[a] if and only
\* if item i has owner a, DELETED items included; the lists hold item ids only.
C4_IndexMatchesOwner ==
    /\ \A a \in Accounts, i \in DOMAIN items :
           (Has(accounts_items, a) /\ i \in Range(accounts_items[a])) <=> items[i].owner = a
    /\ \A a \in DOMAIN accounts_items : Range(accounts_items[a]) \subseteq DOMAIN items

\* a DELETED item still in its owner's list, beside an item that was sold
C4_Witness ==
    \E i \in DOMAIN items, j \in DOMAIN items :
        /\ items[i].status = "DELETED"
        /\ i \in Range(accounts_items[items[i].owner])
        /\ items[j].status = "SOLD"
        /\ j \in Range(accounts_items[items[j].owner])

\* C5: for every item, price is a non-empty string if and only if status is
\* FORSALE.
C5_PriceIffForSale ==
    \A i \in DOMAIN items : (items[i].price # <<>>) <=> (items[i].status = "FORSALE")

\* a listed item with its price has just been delisted
C5_Witness ==
    /\ last.op = "delist_item"
    /\ last.success
    /\ ItemBefore.status = "FORSALE"
    /\ ItemBefore.price # <<>>
    /\ ItemAfter.status = "CREATED"

\* C6 (as claimed): an item that is DELETED when a call starts is DELETED when
\* it ends, whatever the call.
C6_DeletedIsAbsorbing ==
    \A i \in DOMAIN last.pre.items :
        last.pre.items[i].status = "DELETED" => items[i].status = "DELETED"

\* C7: get_items() is exactly the items that are not DELETED, each once, in
\* ascending id order, with their current fields; the call writes nothing.
C7_GetItemsIsTheLiveItems ==
    LET r == get_items
    IN /\ \A k \in 1..Len(r) : /\ r[k].id \in DOMAIN items
                               /\ r[k] = items[r[k].id]
                               /\ r[k].status # "DELETED"
       /\ \A k \in 1..(Len(r) - 1) : StrToNat(r[k].id) < StrToNat(r[k + 1].id)
       /\ \A i \in DOMAIN items :
              items[i].status # "DELETED" => \E k \in 1..Len(r) : r[k].id = i
       /\ last.op = "get_items" => /\ last.view = r
                                   /\ StoredNow = last.pre
                                   /\ last.transfers = <<>>

\* get_items answered one item of two, the first being DELETED
C7_Witness ==
    /\ last.op = "get_items"
    /\ Len(item_ids) = 2
    /\ items[item_ids[1]].status = "DELETED"
    /\ Len(last.view) = 1
    /\ last.view[1].id = item_ids[2]

\* C8: the id list is "0", "1", ..., "k-1" in order, each id has one record
\* whose id field is its key, a successful create_item returns the next id and
\* appends it, and no other call changes the id list.
C8_IdsAreSequential ==
    /\ \A k \in 1..Len(item_ids) : item_ids[k] = NatToStr(k - 1)
    /\ DOMAIN items = Range(item_ids)
    /\ \A i \in DOMAIN items : items[i].id = i
    /\ (last.op = "create_item" /\ last.success) =>
           /\ last.item_id = NatToStr(Len(last.pre.item_ids))
           /\ item_ids = Append(last.pre.item_ids, last.item_id)
    /\ (last.op # "idle" /\ ~(last.op = "create_item" /\ last.success)) =>
           item_ids = last.pre.item_ids

\* a create_item returned "1" after item "0" was deleted
C8_Witness ==
    /\ last.op = "create_item"
    /\ last.success
    /\ last.item_id = <<"1">>
    /\ items[<<"0">>].status = "DELETED"

\* the list with the first occurrence of x taken out
Without(list, x) ==
    IF IndexOf(list, x) = 0 THEN list
    ELSE SubSeq(list, 1, IndexOf(list, x) - 1) \o SubSeq(list, IndexOf(list, x) + 1, Len(list))

PassedGuards ==
    \/ last.success
    \/ last.msg \in {"The amount should be a positive number",
                     "Can't transfer to the contract itself",
                     "Not enough balance to cover transfer"}

\* C10 (as claimed): on a FORSALE item with price p, a caller who is not the
\* owner passes the guards of purchase_item if and only if the attached payment
\* is at least p x 10^24 yoctoNEAR; a smaller payment is rejected with the
\* 'Not enough attached deposit' message and changes nothing.
C10_PaymentThreshold ==
    (/\ last.op = "purchase_item"
     /\ OnExistingItem
     /\ ItemBefore.status = "FORSALE"
     /\ ItemBefore.owner # last.caller) =>
        /\ PassedGuards <=> ~BelowPrice(last.deposit, ItemBefore.price)
        /\ BelowPrice(last.deposit, ItemBefore.price) =>
               /\ ~last.success
               /\ last.msg = "Not enough attached deposit"
               /\ StoredNow = last.pre

\* the call is made on an existing item by an account that does not own it
ByNonOwner(op) ==
    /\ last.op = op
    /\ OnExistingItem
    /\ ItemBefore.owner # last.caller

\* the call failed with message msg and changed nothing
RejectedWith(msg) ==
    /\ ~last.success
    /\ last.msg = msg
    /\ StoredNow = last.pre
    /\ last.transfers = <<>>

\* C11 (as claimed): on an existing item of any status, delete_item, list_item
\* and delist_item by a caller who is not the owner each fail with their own
\* 'Only the owner can ...' message and change nothing.
C11_NonOwnerGetsOwnershipMessage ==
    /\ ByNonOwner("delete_item") => RejectedWith("Only the owner can delete an item")
    /\ ByNonOwner("list_item") => RejectedWith("Only the owner can list an item")
    /\ ByNonOwner("delist_item") => RejectedWith("Only the owner can delist an item")

\* C11 (amended): as above, except that list_item on an item that is FORSALE
\* fails with 'Item is already listed', the status guard coming before the
\* ownership guard in list_item; nothing changes in any of the cases.
C11_NonOwnerIsRejected ==
    /\ ByNonOwner("delete_item") => RejectedWith("Only the owner can delete an item")
    /\ ByNonOwner("list_item") =>
           RejectedWith(IF ItemBefore.status = "FORSALE" THEN "Item is already listed"
                        ELSE "Only the owner can list an item")
    /\ ByNonOwner("delist_item") => RejectedWith("Only the owner can delist an item")

\* an account that does not own a SOLD item has tried to delete it
C11_Witness ==
    /\ ByNonOwner("delete_item")
    /\ ItemBefore.status = "SOLD"
    /\ last.msg = "Only the owner can delete an item"

\* C12: purchase_item by the current owner of a FORSALE item fails with 'You
\* cannot purchase your own item' whatever the attached payment; the item stays
\* FORSALE with its owner and price, and no transfer is scheduled.
C12_OwnerCannotPurchase ==
    (/\ last.op = "purchase_item"
     /\ OnExistingItem
     /\ ItemBefore.status = "FORSALE"
     /\ ItemBefore.owner = last.caller) =>
        /\ RejectedWith("You cannot purchase your own item")
        /\ ItemAfter.status = "FORSALE"
        /\ ItemAfter.owner = ItemBefore.owner
        /\ ItemAfter.price = ItemBefore.price
        /\ ItemAfter.price # <<>>

\* the owner of an item listed at 0.1 has tried to purchase it with 0.101 NEAR
C12_Witness ==
    /\ last.op = "purchase_item"
    /\ OnExistingItem
    /\ ItemBefore.status = "FORSALE"
    /\ ItemBefore.price = <<"0", ".", "1">>
    /\ ItemBefore.owner = last.caller
    /\ last.deposit = 101
    /\ ~last.success

RECURSIVE LiveOf(_, _)
\* the records of the ids, in order, that are not DELETED
LiveOf(ids, its) ==
    IF ids = <<>> THEN <<>>
    ELSE (IF Head(ids) \in DOMAIN its /\ its[Head(ids)].status # "DELETED"
          THEN <<its[Head(ids)]>> ELSE <<>>) \o LiveOf(Tail(ids), its)

\* what get_items() answered before the call
ViewBefore == LiveOf(last.pre.item_ids, last.pre.items)

\* create_item was called with a text for each of name, description and image
ValidCreate ==
    /\ last.op = "create_item"
    /\ ~BadText(last.args.name)
    /\ ~BadText(last.args.description)
    /\ ~BadText(last.args.image)

\* C13: create_item with valid name, description and image succeeds if and only
\* if the attached payment is at least 25 x 10^21 yoctoNEAR, whatever the
\* content; with less it returns success = false with the 'Not enough attached
\* deposit' message, allocates no id and leaves get_items() as it was.
C13_CreateDepositThreshold ==
    ValidCreate =>
        /\ last.success <=> (last.deposit >= 25 * Pow10(21 - UnitExp))
        /\ (last.deposit < 25 * Pow10(21 - UnitExp)) =>
               /\ last.msg = "Not enough attached deposit"
               /\ last.item_id = <<>>
               /\ item_ids = last.pre.item_ids
               /\ get_items = ViewBefore

\* a create_item with the longer name and 0.024 NEAR, one item being on view
C13_Witness ==
    /\ ValidCreate
    /\ last.args.name.s = Name \o Name
    /\ last.deposit = 24
    /\ ~last.success
    /\ Len(get_items) = 1

\* C14: after a successful create_item(name, description, image) by c,
\* get_items() is what it was before plus one new last entry with the supplied
\* name, description and image, owner c, status CREATED, price "" and the
\* returned id; c's owned-id list has gained that id at its end.
C14_CreateRoundTrip ==
    (last.op = "create_item" /\ last.success) =>
        LET c == last.caller
            had == IF Has(last.pre.accounts_items, c) THEN last.pre.accounts_items[c]
                   ELSE <<>>
            r == get_items
            new == r[Len(r)]
        IN /\ Len(r) = Len(ViewBefore) + 1
           /\ SubSeq(r, 1, Len(r) - 1) = ViewBefore
           /\ new.name = last.args.name.s
           /\ new.description = last.args.description.s
           /\ new.image = last.args.image.s
           /\ new.owner = c
           /\ new.status = "CREATED"
           /\ new.price = <<>>
           /\ new.id = last.item_id
           /\ accounts_items[c] = Append(had, last.item_id)

\* a second item created by the owner of the first, which is on view
C14_Witness ==
    /\ last.op = "create_item"
    /\ last.success
    /\ Len(ViewBefore) = 1
    /\ Len(accounts_items[last.caller]) = 2
    /\ Len(get_items) = 2

\* C15 (as claimed): an item's status becomes SOLD only in a successful
\* purchase_item of that item, and only from FORSALE: in every call after which
\* an item is SOLD that was not SOLD before, the call is a purchase_item of it
\* that returned success and the item was FORSALE when the call started.
C15_SoldOnlyBySuccessfulPurchase ==
    /\ \A i \in DOMAIN items \ DOMAIN last.pre.items :
           last.op # "idle" => items[i].status # "SOLD"
    /\ \A i \in DOMAIN last.pre.items :
           (items[i].status = "SOLD" /\ last.pre.items[i].status # "SOLD") =>
               /\ last.op = "purchase_item"
               /\ last.args.item_id.s = i
               /\ last.success
               /\ last.pre.items[i].status = "FORSALE"

\* the call is made on an existing item by its owner
ByOwner(op) ==
    /\ last.op = op
    /\ OnExistingItem
    /\ ItemBefore.owner = last.caller

\* C16: delete_item by the owner on a FORSALE item fails with 'Item is listed
\* for sale. Please delist it first' and the item stays FORSALE with its price;
\* purchase_item on an item that is not FORSALE, and delist_item by the owner
\* on an item that is not FORSALE, fail with 'Item is not listed for sale';
\* the item's status is unchanged in each case.
C16_StatusGuardsReject ==
    /\ (ByOwner("delete_item") /\ ItemBefore.status = "FORSALE") =>
           /\ RejectedWith("Item is listed for sale. Please delist it first")
           /\ ItemAfter.status = "FORSALE"
           /\ ItemAfter.price = ItemBefore.price
           /\ ItemAfter.price # <<>>
    /\ (last.op = "purchase_item" /\ OnExistingItem /\ ItemBefore.status # "FORSALE") =>
           /\ RejectedWith("Item is not listed for sale")
           /\ ItemAfter.status = ItemBefore.status
    /\ (ByOwner("delist_item") /\ ItemBefore.status # "FORSALE") =>
           /\ RejectedWith("Item is not listed for sale")
           /\ ItemAfter.status = ItemBefore.status

\* the owner of a SOLD item has tried to delist it
C16_Witness ==
    /\ ByOwner("delist_item")
    /\ ItemBefore.status = "SOLD"
    /\ ~last.success
    /\ ItemAfter.status = "SOLD"

\* C17: list_item on an item that is already FORSALE, by any caller and with
\* any price, fails with 'Item is already listed' and leaves the item's price
\* and status as the first listing set them.
C17_RelistIsRejected ==
    (last.op = "list_item" /\ OnExistingItem /\ ItemBefore.status = "FORSALE") =>
        /\ RejectedWith("Item is already listed")
        /\ ItemAfter.price = ItemBefore.price
        /\ ItemAfter.price # <<>>
        /\ ItemAfter.status = "FORSALE"

\* the owner of an item listed at 0.1 has tried to list it at 0.025
C17_Witness ==
    /\ ByOwner("list_item")
    /\ ItemBefore.status = "FORSALE"
    /\ ItemBefore.price = <<"0", ".", "1">>
    /\ last.args.price = JsNumber(FALSE, 25, -3)
    /\ ItemAfter.price = <<"0", ".", "1">>

\* C18: the roster account_ids has no duplicates; a call only ever appends to
\* it; it holds exactly the accounts that have an owned-id list, among them
\* every account that created or purchased an item and every current owner; an
\* account keeps its place in the roster and its list entry when a sale
\* empties its list.
C18_RosterIsTheIndexKeys ==
    /\ \A j, k \in 1..Len(account_ids) : account_ids[j] = account_ids[k] => j = k
    /\ Range(account_ids) = DOMAIN accounts_items
    /\ \A i \in DOMAIN items : items[i].owner \in Range(account_ids)
    /\ last.op # "idle" =>
           /\ Len(last.pre.account_ids) <= Len(account_ids)
           /\ SubSeq(account_ids, 1, Len(last.pre.account_ids)) = last.pre.account_ids
           /\ DOMAIN last.pre.accounts_items \subseteq DOMAIN accounts_items
    /\ (last.op \in {"create_item", "purchase_item"} /\ last.success) =>
           last.caller \in Range(account_ids)

\* a sale has just emptied the seller's list; the seller is still in the
\* roster, ahead of the buyer
C18_Witness ==
    /\ last.op = "purchase_item"
    /\ last.success
    /\ accounts_items[ItemBefore.owner] = <<>>
    /\ account_ids = <<ItemBefore.owner, last.caller>>

\* the place, in the documented order of the operation's guards, of the guard a
\* message belongs to; 0 for a message that is no guard's
GuardOfMessage(op, msg) ==
    CASE op = "create_item" ->
             (CASE msg \in {"Name is required", "Name must be a string"} -> 1
                [] msg \in {"Description is required", "Description must be a string"} -> 2
                [] msg \in {"Image is required", "Image must be a string"} -> 3
                [] msg = "Not enough attached deposit" -> 4
                [] OTHER -> 0)
      [] op \in {"delete_item", "delist_item"} ->
             (CASE msg \in {"Item ID is required", "Item ID must be a string"} -> 1
                [] msg = "Item does not exist" -> 2
                [] msg \in {"Only the owner can delete an item",
                            "Only the owner can delist an item"} -> 3
                [] msg \in {"Item is listed for sale. Please delist it first",
                            "Item is not listed for sale"} -> 4
                [] OTHER -> 0)
      [] op = "list_item" ->
             (CASE msg \in {"Item ID is required", "Item ID must be a string"} -> 1
                [] msg = "Item does not exist" -> 2
                [] msg = "Item is already listed" -> 3
                [] msg = "Only the owner can list an item" -> 4
                [] msg \in {"Price is required", "Price must be a number",
                            "Price must be greater than 0"} -> 5
                [] OTHER -> 0)
      [] op = "purchase_item" ->
             (CASE msg \in {"Item ID is required", "Item ID must be a string"} -> 1
                [] msg = "Item does not exist" -> 2
                [] msg = "Item is not listed for sale" -> 3
                [] msg = "You cannot purchase your own item" -> 4
                [] msg = "Not enough attached deposit" -> 5
                [] OTHER -> 0)
      [] OTHER -> 0

\* the place of the earliest guard, in the documented order, that the call
\* violates, judged from its arguments and the storage it started from; 0 when
\* it violates none
FirstViolated ==
    LET a == last.args
        wrongOwner == ItemBefore.owner # last.caller
        forSale == ItemBefore.status = "FORSALE"
    IN CASE last.op = "create_item" ->
                (CASE BadText(a.name) -> 1
                   [] BadText(a.description) -> 2
                   [] BadText(a.image) -> 3
                   [] last.deposit < 25 * Pow10(21 - UnitExp) -> 4
                   [] OTHER -> 0)
         [] last.op = "delete_item" ->
                (CASE BadText(a.item_id) -> 1
                   [] ~OnExistingItem -> 2
                   [] wrongOwner -> 3
                   [] forSale -> 4
                   [] OTHER -> 0)
         [] last.op = "delist_item" ->
                (CASE BadText(a.item_id) -> 1
                   [] ~OnExistingItem -> 2
                   [] wrongOwner -> 3
                   [] ~forSale -> 4
                   [] OTHER -> 0)
         [] last.op = "list_item" ->
                (CASE BadText(a.item_id) -> 1
                   [] ~OnExistingItem -> 2
                   [] forSale -> 3
                   [] wrongOwner -> 4
                   [] BadPrice(a.price) -> 5
                   [] OTHER -> 0)
         [] last.op = "purchase_item" ->
                (CASE BadText(a.item_id) -> 1
                   [] ~OnExistingItem -> 2
                   [] ~forSale -> 3
                   [] ~wrongOwner -> 4
                   [] BelowPrice(last.deposit, ItemBefore.price) -> 5
                   [] OTHER -> 0)
         [] OTHER -> 0

\* C19 (as claimed): when a call violates one or more guards, it fails with the
\* message of the earliest violated guard in the documented order: name,
\* description, image, deposit for create_item; id, existence, ownership,
\* status for delete_item and delist_item; id, existence, status, ownership,
\* price for list_item; id, existence, status, not-own-item, payment for
\* purchase_item.
C19_FirstViolatedGuardDecides ==
    FirstViolated > 0 =>
        /\ ~last.success
        /\ GuardOfMessage(last.op, last.msg) = FirstViolated

\* the ids account a owns according to the index value map
OwnedIn(map, a) == IF Has(map, a) THEN Range(map[a]) ELSE {}

\* C20 (as claimed): a successful purchase_item writes the index by
\* taking the id out of the old owner's list first and putting it into the new
\* owner's list second; after none of its writes is the id in both lists.
C20_RemoveBeforeAdd ==
    (last.op = "purchase_item" /\ last.success) =>
        LET i == last.args.item_id.s
            old == ItemBefore.owner
            new == last.caller
        IN /\ i \notin OwnedIn(last.writes[1], old)
           /\ \A k \in 1..Len(last.writes) :
                  ~(i \in OwnedIn(last.writes[k], old) /\ i \in OwnedIn(last.writes[k], new))

\* C21: a successful delete_item(i) changes the status of item i to DELETED
\* and nothing else: the record stays, with its owner, price and other fields;
\* the id list, every owned-id list (i still in its owner's) and the roster
\* are as before; no transfer is scheduled.
C21_DeleteChangesOnlyStatus ==
    (last.op = "delete_item" /\ last.success) =>
        /\ OnExistingItem
        /\ ItemAfter = [ItemBefore EXCEPT !.status = "DELETED"]
        /\ StoredNow = [last.pre EXCEPT !.items[last.args.item_id.s].status = "DELETED"]
        /\ last.args.item_id.s \in Range(accounts_items[ItemAfter.owner])
        /\ last.transfers = <<>>

\* an item bought from its creator has been deleted by the buyer
C21_Witness ==
    /\ last.op = "delete_item"
    /\ last.success
    /\ ItemBefore.status = "SOLD"
    /\ ItemAfter.status = "DELETED"
    /\ ItemAfter.created_at # DateNowString

\* C22: the id, name, description, image, created_at and updated_at of an item
\* that exists when a call starts are the same when it ends, whatever the call;
\* updated_at keeps its creation value across every status change.
C22_CreationFieldsAreFixed ==
    \A i \in DOMAIN last.pre.items :
        /\ i \in DOMAIN items
        /\ items[i].id = last.pre.items[i].id
        /\ items[i].name = last.pre.items[i].name
        /\ items[i].description = last.pre.items[i].description
        /\ items[i].image = last.pre.items[i].image
        /\ items[i].created_at = last.pre.items[i].created_at
        /\ items[i].updated_at = last.pre.items[i].updated_at

\* an item has been listed at a later time than it was created at
C22_Witness ==
    /\ last.op = "list_item"
    /\ last.success
    /\ ItemAfter.status # ItemBefore.status
    /\ ItemAfter.updated_at # DateNowString
    /\ ItemAfter.name = Name \o Name

\* C23: the only transfer ever scheduled is the one of a successful
\* purchase_item: one transfer, to the seller, of exactly price x 10^24
\* yoctoNEAR however much more the buyer attached; every other call, and every
\* failed call, schedules none, and no transfer goes to the buyer.
C23_OnlyThePriceGoesToTheSeller ==
    /\ last.transfers # <<>> =>
           /\ last.op = "purchase_item"
           /\ last.success
           /\ OnExistingItem
           /\ Len(last.transfers) = 1
           /\ last.transfers[1].to = ItemBefore.owner
           /\ last.transfers[1].to # last.caller
           /\ last.transfers[1].amount = PriceAmount(ItemBefore.price)
    /\ (last.op = "purchase_item" /\ last.success) => Len(last.transfers) = 1

\* an item listed at 0.1 has been purchased with 0.101 NEAR attached
C23_Witness ==
    /\ last.op = "purchase_item"
    /\ last.success
    /\ ItemBefore.price = <<"0", ".", "1">>
    /\ last.deposit = 101
    /\ last.transfers = <<[to |-> ItemBefore.owner, amount |-> 100]>>

\* C24: every transfer scheduled has an amount greater than 0, a destination
\* other than the contract's own account and an amount strictly less than the
\* contract's balance during the call.
C24_TransfersMeetThePreconditions ==
    \A k \in 1..Len(last.transfers) :
        /\ last.transfers[k].amount > 0
        /\ last.transfers[k].to # currentAccountId
        /\ last.transfers[k].amount < last.balance

\* a transfer of 0.025 NEAR out of a balance of 0.025 NEAR and one unit
C24_Witness ==
    /\ last.transfers # <<>>
    /\ last.transfers[1].amount = 25
    /\ last.balance = 26

\* a successful delist_item of item i is being answered, the call before it
\* was a successful list_item of the same item, then in status CREATED
ListedThenDelisted ==
    /\ last.op = "delist_item"
    /\ last.success
    /\ listed_from # <<>>
    /\ listed_from[1].item_id = last.args.item_id.s
    /\ listed_from[1].from.items[last.args.item_id.s].status = "CREATED"

\* C25: a successful list_item(i, p) on a CREATED item followed by a successful
\* delist_item(i) leaves the whole storage (items, id list, owned-id lists,
\* roster) as it was before the list_item; after any successful delist_item
\* the item's status is CREATED and its price is empty.
C25_ListDelistRoundTrip ==
    /\ (last.op = "delist_item" /\ last.success) =>
           /\ ItemAfter.status = "CREATED"
           /\ ItemAfter.price = <<>>
    /\ ListedThenDelisted => StoredNow = listed_from[1].from

\* an item created earlier has been listed and at once delisted
C25_Witness ==
    /\ ListedThenDelisted
    /\ last.pre.items[last.args.item_id.s].status = "FORSALE"
    /\ last.pre.items[last.args.item_id.s].price = <<"0", ".", "1">>
    /\ ItemAfter.created_at # DateNowString

\* the number a stored price string stands for is greater than zero
PositivePrice(price) ==
    /\ price # <<>>
    /\ LET d == Decimal(price) IN d.m > 0 /\ ~d.neg

\* C26: a successful list_item(i, p) sets status FORSALE and price to a string
\* that reads back as the number p; list_item with a price that is missing,
\* zero, not a number or not greater than 0 is rejected and changes nothing;
\* every FORSALE item has a price greater than zero; the price of a FORSALE
\* item, and its status, change only in a delist_item or purchase_item of it.
C26_ListedPriceIsKept ==
    /\ (last.op = "list_item" /\ last.success) =>
           /\ ItemAfter.status = "FORSALE"
           /\ Decimal(ItemAfter.price) = [neg |-> last.args.price.neg,
                                          m |-> last.args.price.m, e |-> last.args.price.e]
           /\ TypeOf(last.args.price) = "number"
           /\ GreaterThanZero(last.args.price)
    /\ (last.op = "list_item" /\ BadPrice(last.args.price)) =>
           /\ ~last.success
           /\ StoredNow = last.pre
    /\ \A i \in DOMAIN items : items[i].status = "FORSALE" => PositivePrice(items[i].price)
    /\ \A i \in DOMAIN last.pre.items :
           (/\ last.pre.items[i].status = "FORSALE"
            /\ ~(last.op \in {"delist_item", "purchase_item"} /\ last.args.item_id.s = i)) =>
               /\ items[i].status = "FORSALE"
               /\ items[i].price = last.pre.items[i].price

\* an item has been listed at 0.025 and holds "0.025"
C26_Witness ==
    /\ last.op = "list_item"
    /\ last.success
    /\ last.args.price = JsNumber(FALSE, 25, -3)
    /\ ItemAfter.price = <<"0", ".", "0", "2", "5">>

RECURSIVE TotalOwned(_)
\* the lengths of the owned-id lists of the accounts in S, added up
TotalOwned(S) ==
    IF S = {} THEN 0
    ELSE LET a == CHOOSE x \in S : TRUE
         IN Len(accounts_items[a]) + TotalOwned(S \ {a})

\* C27: no id occurs twice in an account's owned-id list; every id of the id
\* list is in the list of exactly one account; the lengths of all owned-id
\* lists add up to the number of items created.
C27_EachIdOwnedOnce ==
    /\ \A a \in DOMAIN accounts_items :
           \A j, k \in 1..Len(accounts_items[a]) :
               accounts_items[a][j] = accounts_items[a][k] => j = k
    /\ \A k \in 1..Len(item_ids) :
           Cardinality({a \in DOMAIN accounts_items :
                           item_ids[k] \in Range(accounts_items[a])}) = 1
    /\ TotalOwned(DOMAIN accounts_items) = Len(item_ids)

\* the creator of an item has sold it and has just bought it back
C27_Witness ==
    /\ last.op = "purchase_item"
    /\ last.success
    /\ Len(account_ids) = 2
    /\ last.caller = account_ids[1]
    /\ ItemBefore.owner = account_ids[2]
    /\ accounts_items[account_ids[1]] = <<last.args.item_id.s>>
    /\ accounts_items[account_ids[2]] = <<>>

\* C28 (as claimed): an item's owner changes only in a successful
\* purchase_item of that item, and then to the caller, who is not the previous
\* owner; no other call changes the owner of an existing item; delete_item,
\* list_item and delist_item by an account that is not the owner, the previous
\* owner after a purchase included, are rejected.
C28_OwnerChangesOnlyBySuccessfulPurchase ==
    /\ \A i \in DOMAIN last.pre.items :
           items[i].owner # last.pre.items[i].owner =>
               /\ last.op = "purchase_item"
               /\ last.args.item_id.s = i
               /\ last.success
               /\ items[i].owner = last.caller
               /\ last.caller # last.pre.items[i].owner
    /\ (ByNonOwner("delete_item") \/ ByNonOwner("list_item") \/ ByNonOwner("delist_item")) =>
           /\ ~last.success
           /\ StoredNow = last.pre

\* C29: delete_item, list_item, delist_item and purchase_item on item i leave
\* the record of every other item and the id list as they were; the id list
\* never gets shorter and only create_item appends to it; list_item and
\* delist_item also leave every owned-id list and the roster as they were.
C29_OtherItemsUntouched ==
    /\ last.op \in {"delete_item", "list_item", "delist_item", "purchase_item"} =>
           /\ item_ids = last.pre.item_ids
           /\ DOMAIN items = DOMAIN last.pre.items
           /\ \A j \in DOMAIN last.pre.items :
                  (TypeOf(last.args.item_id) # "string" \/ j # last.args.item_id.s) =>
                      items[j] = last.pre.items[j]
    /\ last.op \in {"list_item", "delist_item"} =>
           /\ accounts_items = last.pre.accounts_items
           /\ account_ids = last.pre.account_ids
    /\ last.op # "idle" =>
           /\ Len(item_ids) >= Len(last.pre.item_ids)
           /\ item_ids # last.pre.item_ids => last.op = "create_item"

\* item "1" has been purchased while item "0" is listed for sale
C29_Witness ==
    /\ last.op = "purchase_item"
    /\ last.success
    /\ last.args.item_id.s = <<"1">>
    /\ Has(items, <<"0">>)
    /\ items[<<"0">>].status = "FORSALE"
    /\ items[<<"0">>] = last.pre.items[<<"0">>]

===========================================================================
